---- MODULE Spec2Model ----
(***************************************************************************)
(* Model of the JSON-RPC HTTP client of src/client/http/client.rs:         *)
(* HttpClient::notification, HttpClient::request, HttpClient::batch_request *)
(* and HttpClient::process_response, run by concurrent callers that share   *)
(* one client (one AtomicU64 request_id).  The transport is an opaque       *)
(* collaborator: whatever it returns is a nondeterministic input.           *)
(***************************************************************************)
EXTENDS Integers, Sequences, FiniteSets, TLC

\* ------------------------------------------------------------------ bounds
\* Size of the identifier space. The source uses u64 (2^64 values); the
\* model keeps the wrap-around arithmetic and scales the width down.
IdSpace == 3
\* Largest number of items in one batch_request.
MaxBatch == 2
\* Largest number of members in a Batch response chosen by the transport
\* when one caller uses the client.
MaxResp == 2
\* Largest number of members in a Batch response chosen by the transport
\* when several callers use the client concurrently.
MaxConcurrentResp == 1
\* Total number of fetch_add calls explored (past one wrap-around).
MaxAllocs == IdSpace + 1

\* Concurrent callers sharing the client.
Tasks == {"t1", "t2"}

\* --------------------------------------------------------- jsonrpc values
\* u64 request ids.
U64 == 0 .. (IdSpace - 1)

\* jsonrpc::Id: Num(u64), Str(String) or Null.
NumId(n) == [tag |-> "Num", num |-> n]
StrId == [tag |-> "Str", num |-> 0]
NullId == [tag |-> "Null", num |-> 0]
Id == {NumId(n) : n \in U64} \cup {StrId, NullId}

\* Option<u64>
Some(n) == <<n>>
None == <<>>

\* Id::as_number: Some(n) for Id::Num(n), None otherwise.
as_number(id) == IF id.tag = "Num" THEN Some(id.num) ELSE None

\* JsonValue results and jsonrpc::Error objects a server may send.
JsonValue == {"v1", "v2"}
NoValue == "null"
NoRpcError == [code |-> 0, message |-> ""]
RpcError == {[code |-> -32601, message |-> "Method not found"],
             [code |-> -32000, message |-> "Server error"]}

\* jsonrpc::Output: Success{result, id} or Failure{error, id}.
Success(v, id) == [tag |-> "Success", result |-> v, error |-> NoRpcError, id |-> id]
Failure(e, id) == [tag |-> "Failure", result |-> NoValue, error |-> e, id |-> id]
Output == {Success(v, id) : v \in JsonValue, id \in Id}
            \cup {Failure(e, id) : e \in RpcError, id \in Id}

\* Sequences over S of length at most n.
SeqUpTo(S, n) == UNION {[1 .. k -> S] : k \in 0 .. n}

\* jsonrpc::Response: Single(Output), Batch(Vec<Output>) or Notif.
NoOutput == [tag |-> "None", result |-> NoValue, error |-> NoRpcError, id |-> NullId]
SingleResponse(o) == [shape |-> "Single", single |-> o, batch |-> <<>>]
BatchResponse(rps) == [shape |-> "Batch", single |-> NoOutput, batch |-> rps]
NotifResponse == [shape |-> "Notif", single |-> NoOutput, batch |-> <<>>]
NoResponse == [shape |-> "None", single |-> NoOutput, batch |-> <<>>]
Response(n) == {SingleResponse(o) : o \in Output}
                 \cup {BatchResponse(rps) : rps \in SeqUpTo(Output, n)}
                 \cup {NotifResponse}

\* What the transport hands back for send_request_and_wait_for_response:
\* Ok(response), with a Batch of at most n members, or Err(transport error).
TransportErr == [shape |-> "TransportErr", single |-> NoOutput, batch |-> <<>>]
TransportResult(n) == Response(n) \cup {TransportErr}

\* jsonrpc::Call: MethodCall{method, params, id} or Notification{method, params}.
\* Method names are numbered; item i of a batch names method i.
Method == 1 .. (MaxBatch + 1)
MethodCall(m, n) == [call |-> "MethodCall", method |-> m, id |-> NumId(n)]
Notification(m) == [call |-> "Notification", method |-> m, id |-> NullId]

\* jsonrpc::Request: Single(Call) or Batch(Vec<Call>).
NoRequest == [shape |-> "None", calls |-> <<>>]
SingleRequest(c) == [shape |-> "Single", calls |-> <<c>>]
BatchRequest(cs) == [shape |-> "Batch", calls |-> cs]

\* --------------------------------------------------------- types::client::Error
NoError == [kind |-> "None", msg |-> "", rpc |-> NoRpcError]
TransportError == [kind |-> "TransportError", msg |-> "", rpc |-> NoRpcError]
InvalidRequestId == [kind |-> "InvalidRequestId", msg |-> "", rpc |-> NoRpcError]
Custom(m) == [kind |-> "Custom", msg |-> m, rpc |-> NoRpcError]
Request(e) == [kind |-> "Request", msg |-> "", rpc |-> e]

\* Result<_, Error>: Ok carries the payloads (one JsonValue for request,
\* a Vec for batch_request, none for notification).
Ok(vals) == [ok |-> TRUE, payloads |-> vals, error |-> NoError]
Err(e) == [ok |-> FALSE, payloads |-> <<>>, error |-> e]

\* TryFrom<Output> for JsonValue: Success gives its result, Failure its error.
try_into(rp) == IF rp.tag = "Success" THEN Ok(<<rp.result>>) ELSE Err(rp.error)

\* Result::map_err(Error::Request)
map_err_Request(r) == IF r.ok THEN r ELSE Err(Request(r.error))

\* ------------------------------------------------------------- validation
\* Variant: a saturating add, the counter stays at its maximum.
fetch_add_saturating(cur) ==
    [id |-> cur, next |-> IF cur + 1 > IdSpace - 1 THEN IdSpace - 1 ELSE cur + 1]

\* Variant: a plain load, the counter is never advanced.
fetch_add_load(cur) == [id |-> cur, next |-> cur]

\* AtomicU64::fetch_add(1, SeqCst): returns the old value, wraps on overflow.
fetch_add(cur) == [id |-> cur, next |-> (cur + 1) % IdSpace]

\* Variant: the id of the response is not compared with expected_id.
process_response_unchecked(response, expected_id) ==
    map_err_Request(try_into(response))

\* Variant: a matching response is always unwrapped as a success.
process_response_unwrap(response, expected_id) ==
    IF as_number(response.id) # None /\ as_number(response.id)[1] = expected_id
    THEN Ok(<<response.result>>)
    ELSE Err(InvalidRequestId)

\* Variant: any numeric id is accepted.
process_response_any_number(response, expected_id) ==
    IF as_number(response.id) # None
    THEN map_err_Request(try_into(response))
    ELSE Err(InvalidRequestId)

\* HttpClient::process_response
process_response(response, expected_id) ==
    IF as_number(response.id) # None /\ as_number(response.id)[1] = expected_id
    THEN map_err_Request(try_into(response))
    ELSE Err(InvalidRequestId)

\* Variant: a Batch or Notif response is reported as a wrong id.
request_match_invalid_id(response, id) ==
    IF response.shape = "Single" THEN process_response(response.single, id)
    ELSE Err(InvalidRequestId)

\* The match on the response in HttpClient::request.
request_match(response, id) ==
    CASE response.shape = "Single" -> process_response(response.single, id)
      [] response.shape = "Batch" ->
            Err(Custom("Server replied with batch response to a single request"))
      [] response.shape = "Notif" ->
            Err(Custom("Server replied with notification response to request ID"))

\* Variant: the id of a member is not looked up in `ids`.
RECURSIVE batch_loop_no_lookup(_, _, _)
batch_loop_no_lookup(rps, ids, responses) ==
    IF rps = <<>> THEN [result |-> Ok(responses), ids |-> ids]
    ELSE LET rp == Head(rps)
             id == as_number(rp.id)
         IN  IF id = None THEN [result |-> Err(InvalidRequestId), ids |-> ids]
             ELSE LET val == map_err_Request(try_into(rp))
                  IN  IF ~val.ok THEN [result |-> val, ids |-> ids \ {id[1]}]
                      ELSE batch_loop_no_lookup(Tail(rps), ids \ {id[1]},
                                                responses \o val.payloads)

\* Variant: each payload is put in front of the ones already collected.
RECURSIVE batch_loop_prepend(_, _, _)
batch_loop_prepend(rps, ids, responses) ==
    IF rps = <<>> THEN [result |-> Ok(responses), ids |-> ids]
    ELSE LET rp == Head(rps)
             id == as_number(rp.id)
         IN  IF id = None THEN [result |-> Err(InvalidRequestId), ids |-> ids]
             ELSE IF id[1] \notin ids THEN [result |-> Err(InvalidRequestId), ids |-> ids]
             ELSE LET val == map_err_Request(try_into(rp))
                  IN  IF ~val.ok THEN [result |-> val, ids |-> ids \ {id[1]}]
                      ELSE batch_loop_prepend(Tail(rps), ids \ {id[1]},
                                              val.payloads \o responses)

\* Variant: ids left unanswered when the loop ends are an error.
RECURSIVE batch_loop_complete(_, _, _)
batch_loop_complete(rps, ids, responses) ==
    IF rps = <<>>
    THEN [result |-> IF ids = {} THEN Ok(responses) ELSE Err(InvalidRequestId), ids |-> ids]
    ELSE LET rp == Head(rps)
             id == as_number(rp.id)
         IN  IF id = None THEN [result |-> Err(InvalidRequestId), ids |-> ids]
             ELSE IF id[1] \notin ids THEN [result |-> Err(InvalidRequestId), ids |-> ids]
             ELSE LET val == map_err_Request(try_into(rp))
                  IN  IF ~val.ok THEN [result |-> val, ids |-> ids \ {id[1]}]
                      ELSE batch_loop_complete(Tail(rps), ids \ {id[1]},
                                               responses \o val.payloads)

\* Variant: a member that fails any check is skipped and the loop goes on.
RECURSIVE batch_loop_skip(_, _, _)
batch_loop_skip(rps, ids, responses) ==
    IF rps = <<>> THEN [result |-> Ok(responses), ids |-> ids]
    ELSE LET rp == Head(rps)
             id == as_number(rp.id)
         IN  IF id = None THEN batch_loop_skip(Tail(rps), ids, responses)
             ELSE IF id[1] \notin ids THEN batch_loop_skip(Tail(rps), ids, responses)
             ELSE LET val == map_err_Request(try_into(rp))
                  IN  batch_loop_skip(Tail(rps), ids \ {id[1]},
                                      responses \o val.payloads)

\* Variant: the payload of a member is decoded before its id is checked.
RECURSIVE batch_loop_decode_first(_, _, _)
batch_loop_decode_first(rps, ids, responses) ==
    IF rps = <<>> THEN [result |-> Ok(responses), ids |-> ids]
    ELSE LET rp == Head(rps)
             id == as_number(rp.id)
             val == map_err_Request(try_into(rp))
         IN  IF ~val.ok THEN [result |-> val, ids |-> ids]
             ELSE IF id = None THEN [result |-> Err(InvalidRequestId), ids |-> ids]
             ELSE IF id[1] \notin ids THEN [result |-> Err(InvalidRequestId), ids |-> ids]
             ELSE batch_loop_decode_first(Tail(rps), ids \ {id[1]},
                                          responses \o val.payloads)

\* The `for rp in rps` loop of HttpClient::batch_request: returns the
\* result together with the ids left in the HashSet when the loop ends.
RECURSIVE batch_loop(_, _, _)
batch_loop(rps, ids, responses) ==
    IF rps = <<>> THEN [result |-> Ok(responses), ids |-> ids]
    ELSE LET rp == Head(rps)
             id == as_number(rp.id)
         IN  IF id = None THEN [result |-> Err(InvalidRequestId), ids |-> ids]
             ELSE IF id[1] \notin ids THEN [result |-> Err(InvalidRequestId), ids |-> ids]
             ELSE LET val == map_err_Request(try_into(rp))
                  IN  IF ~val.ok THEN [result |-> val, ids |-> ids \ {id[1]}]
                      ELSE batch_loop(Tail(rps), ids \ {id[1]}, responses \o val.payloads)

\* Variant: a Single response is validated as a batch of one member.
batch_request_match_single_as_batch(response, ids) ==
    CASE response.shape = "Single" -> batch_loop(<<response.single>>, ids, <<>>)
      [] response.shape = "Notif" -> batch_loop(<<>>, ids, <<>>)
      [] response.shape = "Batch" -> batch_loop(response.batch, ids, <<>>)

\* The match on the response in HttpClient::batch_request.
batch_request_match(response, ids) ==
    CASE response.shape = "Single" ->
            [result |-> Err(Custom("Server replied with single response to a batch request")),
             ids |-> ids]
      [] response.shape = "Notif" ->
            [result |-> Err(Custom("Server replied with notification to a a batch request")),
             ids |-> ids]
      [] response.shape = "Batch" -> batch_loop(response.batch, ids, <<>>)

\* The transport primitives.
SendNotification == "send_notification"
SendRequestAndWait == "send_request_and_wait_for_response"

\* Variant: a transport failure is handled like a Notif response.
request_resume_validate(tr, id) ==
    [result |-> request_match(IF tr = TransportErr THEN NotifResponse ELSE tr, id),
     validated |-> TRUE]

\* HttpClient::request after the await: `?` returns the transport error
\* before the match on the response is reached.
request_resume(tr, id) ==
    IF tr = TransportErr
    THEN [result |-> Err(TransportError), validated |-> FALSE]
    ELSE [result |-> request_match(tr, id), validated |-> TRUE]

\* HttpClient::batch_request after the await: `?` returns the transport
\* error before the match on the response is reached.
batch_request_resume(tr, ids) ==
    IF tr = TransportErr
    THEN [result |-> Err(TransportError), ids |-> ids, validated |-> FALSE]
    ELSE LET out == batch_request_match(tr, ids)
         IN  [result |-> out.result, ids |-> out.ids, validated |-> TRUE]

\* ------------------------------------------------------------------ state
VARIABLES
    request_id,   \* HttpClient.request_id (AtomicU64)
    allocated,    \* history: the ids returned by fetch_add, in order
    pc,           \* per caller: where it is in its current operation
    id,           \* per caller: local `id` of request
    items,        \* per caller: methods of batch_request not yet iterated
    calls,        \* per caller: local `calls` of batch_request
    ids,          \* per caller: local `ids` of batch_request
    wire,         \* per caller: the Request handed to the transport
    requests,     \* per caller: the `requests` argument of batch_request
    prims,        \* per caller, history: transport primitives its operation invoked
    mine,         \* per caller, history: positions in `allocated` of its operation
    last          \* history: the operation that ended in the last step

vars == <<request_id, allocated, pc, id, items, calls, ids, wire, requests, prims, mine, last>>

\* No operation has just ended.
NoReturn == [op |-> "none", task |-> "", id |-> 0, sent |-> {}, request |-> NoRequest,
             response |-> TransportErr, result |-> Ok(<<>>), ids |-> {},
             requests |-> <<>>, prims |-> <<>>, mine |-> {}, validated |-> FALSE,
             abandoned |-> FALSE]

\* HttpClient::new: request_id starts at 0; no caller is inside an operation.
Init ==
    /\ request_id = 0
    /\ allocated = <<>>
    /\ pc = [t \in Tasks |-> "idle"]
    /\ id = [t \in Tasks |-> 0]
    /\ items = [t \in Tasks |-> <<>>]
    /\ calls = [t \in Tasks |-> <<>>]
    /\ ids = [t \in Tasks |-> {}]
    /\ wire = [t \in Tasks |-> NoRequest]
    /\ requests = [t \in Tasks |-> <<>>]
    /\ prims = [t \in Tasks |-> <<>>]
    /\ mine = [t \in Tasks |-> {}]
    /\ last = NoReturn

\* The caller of the operation that just returned takes its result; until
\* then no other step is recorded.
Observe ==
    /\ last # NoReturn
    /\ last' = NoReturn
    /\ UNCHANGED <<request_id, allocated, pc, id, items, calls, ids, wire, requests,
                   prims, mine>>

\* ----------------------------------------------------------- notification
\* Variant: the notification takes an id from the counter.
notification_send_with_id(t, m) ==
    /\ last = NoReturn
    /\ pc[t] = "idle"
    /\ Len(allocated) < MaxAllocs
    /\ request_id' = fetch_add(request_id).next
    /\ allocated' = Append(allocated, request_id)
    /\ pc' = [pc EXCEPT ![t] = "notification_await"]
    /\ wire' = [wire EXCEPT ![t] = SingleRequest(Notification(m))]
    /\ prims' = [prims EXCEPT ![t] = <<SendNotification>>]
    /\ mine' = [mine EXCEPT ![t] = {}]
    /\ UNCHANGED <<id, items, calls, ids, requests, last>>

\* Variant: the Notification goes through the request/response primitive.
notification_send_and_wait(t, m) ==
    /\ last = NoReturn
    /\ pc[t] = "idle"
    /\ pc' = [pc EXCEPT ![t] = "notification_await"]
    /\ wire' = [wire EXCEPT ![t] = SingleRequest(Notification(m))]
    /\ prims' = [prims EXCEPT ![t] = <<SendRequestAndWait>>]
    /\ mine' = [mine EXCEPT ![t] = {}]
    /\ UNCHANGED <<request_id, allocated, id, items, calls, ids, requests, last>>

\* HttpClient::notification up to the await: build the Notification and
\* hand it to transport.send_notification.
notification_send(t, m) ==
    /\ last = NoReturn
    /\ pc[t] = "idle"
    /\ pc' = [pc EXCEPT ![t] = "notification_await"]
    /\ wire' = [wire EXCEPT ![t] = SingleRequest(Notification(m))]
    /\ prims' = [prims EXCEPT ![t] = <<SendNotification>>]
    /\ mine' = [mine EXCEPT ![t] = {}]
    /\ UNCHANGED <<request_id, allocated, id, items, calls, ids, requests, last>>

\* send_notification resolves: Ok(()) or a transport error, mapped to
\* Error::TransportError.
notification_return(t) ==
    /\ last = NoReturn
    /\ pc[t] = "notification_await"
    /\ \E sent_ok \in BOOLEAN :
          last' = [op |-> "notification", task |-> t, id |-> 0, sent |-> {},
                   request |-> wire[t],
                   response |-> IF sent_ok THEN NoResponse ELSE TransportErr,
                   result |-> IF sent_ok THEN Ok(<<>>) ELSE Err(TransportError),
                   ids |-> {}, requests |-> <<>>, prims |-> prims[t],
                   mine |-> mine[t], validated |-> FALSE, abandoned |-> FALSE]
    /\ pc' = [pc EXCEPT ![t] = "idle"]
    /\ wire' = [wire EXCEPT ![t] = NoRequest]
    /\ prims' = [prims EXCEPT ![t] = <<>>]
    /\ mine' = [mine EXCEPT ![t] = {}]
    /\ UNCHANGED <<request_id, allocated, id, items, calls, ids, requests>>

\* ---------------------------------------------------------------- request
\* Variant: a request starts only while no other caller awaits a response.
request_send_exclusive(t, m) ==
    /\ last = NoReturn
    /\ pc[t] = "idle"
    /\ \A u \in Tasks : pc[u] \notin {"request_await", "batch_await"}
    /\ Len(allocated) < MaxAllocs
    /\ LET f == fetch_add(request_id)
       IN  /\ request_id' = f.next
           /\ allocated' = Append(allocated, f.id)
           /\ id' = [id EXCEPT ![t] = f.id]
           /\ wire' = [wire EXCEPT ![t] = SingleRequest(MethodCall(m, f.id))]
    /\ mine' = [mine EXCEPT ![t] = {Len(allocated) + 1}]
    /\ prims' = [prims EXCEPT ![t] = <<SendRequestAndWait>>]
    /\ pc' = [pc EXCEPT ![t] = "request_await"]
    /\ UNCHANGED <<items, calls, ids, requests, last>>

\* HttpClient::request up to the await: fetch_add, build the MethodCall,
\* hand it to transport.send_request_and_wait_for_response.
request_send(t, m) ==
    /\ last = NoReturn
    /\ pc[t] = "idle"
    /\ Len(allocated) < MaxAllocs
    /\ LET f == fetch_add(request_id)
       IN  /\ request_id' = f.next
           /\ allocated' = Append(allocated, f.id)
           /\ id' = [id EXCEPT ![t] = f.id]
           /\ wire' = [wire EXCEPT ![t] = SingleRequest(MethodCall(m, f.id))]
    /\ mine' = [mine EXCEPT ![t] = {Len(allocated) + 1}]
    /\ prims' = [prims EXCEPT ![t] = <<SendRequestAndWait>>]
    /\ pc' = [pc EXCEPT ![t] = "request_await"]
    /\ UNCHANGED <<items, calls, ids, requests, last>>

\* The transport resolves the await of HttpClient::request with a result of
\* at most n Batch members; the rest of the function runs on it.
request_return(t, n) ==
    /\ last = NoReturn
    /\ pc[t] = "request_await"
    /\ \E tr \in TransportResult(n) :
          LET out == request_resume(tr, id[t])
          IN  last' = [op |-> "request", task |-> t, id |-> id[t], sent |-> {id[t]},
                       request |-> wire[t], response |-> tr,
                       result |-> out.result,
                       ids |-> {}, requests |-> <<>>, prims |-> prims[t],
                       mine |-> mine[t], validated |-> out.validated,
                       abandoned |-> FALSE]
    /\ pc' = [pc EXCEPT ![t] = "idle"]
    /\ id' = [id EXCEPT ![t] = 0]
    /\ wire' = [wire EXCEPT ![t] = NoRequest]
    /\ prims' = [prims EXCEPT ![t] = <<>>]
    /\ mine' = [mine EXCEPT ![t] = {}]
    /\ UNCHANGED <<request_id, allocated, items, calls, ids, requests>>

\* ---------------------------------------------------------- batch_request
\* HttpClient::batch_request entered with k items: empty `calls` and `ids`.
batch_begin(t, k) ==
    /\ last = NoReturn
    /\ pc[t] = "idle"
    /\ pc' = [pc EXCEPT ![t] = "batch_loop"]
    /\ items' = [items EXCEPT ![t] = [i \in 1 .. k |-> i]]
    /\ calls' = [calls EXCEPT ![t] = <<>>]
    /\ ids' = [ids EXCEPT ![t] = {}]
    /\ requests' = [requests EXCEPT ![t] = [i \in 1 .. k |-> i]]
    /\ prims' = [prims EXCEPT ![t] = <<>>]
    /\ mine' = [mine EXCEPT ![t] = {}]
    /\ UNCHANGED <<request_id, allocated, id, wire, last>>

\* Variant: the MethodCall is put in front of `calls`.
batch_alloc_prepend(t) ==
    /\ last = NoReturn
    /\ pc[t] = "batch_loop"
    /\ items[t] # <<>>
    /\ Len(allocated) < MaxAllocs
    /\ LET f == fetch_add(request_id)
       IN  /\ request_id' = f.next
           /\ allocated' = Append(allocated, f.id)
           /\ calls' = [calls EXCEPT ![t] = <<MethodCall(Head(items[t]), f.id)>> \o @]
           /\ ids' = [ids EXCEPT ![t] = @ \cup {f.id}]
    /\ items' = [items EXCEPT ![t] = Tail(@)]
    /\ mine' = [mine EXCEPT ![t] = @ \cup {Len(allocated) + 1}]
    /\ UNCHANGED <<pc, id, wire, requests, prims, last>>

\* One iteration of `for (method, params) in requests`: fetch_add, push the
\* MethodCall, insert the id.
batch_alloc(t) ==
    /\ last = NoReturn
    /\ pc[t] = "batch_loop"
    /\ items[t] # <<>>
    /\ Len(allocated) < MaxAllocs
    /\ LET f == fetch_add(request_id)
       IN  /\ request_id' = f.next
           /\ allocated' = Append(allocated, f.id)
           /\ calls' = [calls EXCEPT ![t] = Append(@, MethodCall(Head(items[t]), f.id))]
           /\ ids' = [ids EXCEPT ![t] = @ \cup {f.id}]
    /\ items' = [items EXCEPT ![t] = Tail(@)]
    /\ mine' = [mine EXCEPT ![t] = @ \cup {Len(allocated) + 1}]
    /\ UNCHANGED <<pc, id, wire, requests, prims, last>>

\* Variant: an empty batch is not handed to the transport.
batch_send_unless_empty(t) ==
    /\ last = NoReturn
    /\ pc[t] = "batch_loop"
    /\ items[t] = <<>>
    /\ wire' = [wire EXCEPT ![t] = BatchRequest(calls[t])]
    /\ prims' = [prims EXCEPT ![t] = IF calls[t] = <<>> THEN @
                                     ELSE Append(@, SendRequestAndWait)]
    /\ calls' = [calls EXCEPT ![t] = <<>>]
    /\ pc' = [pc EXCEPT ![t] = "batch_await"]
    /\ UNCHANGED <<request_id, allocated, id, items, ids, requests, mine, last>>

\* After the loop: Request::Batch(calls) goes to
\* transport.send_request_and_wait_for_response.
batch_send(t) ==
    /\ last = NoReturn
    /\ pc[t] = "batch_loop"
    /\ items[t] = <<>>
    /\ wire' = [wire EXCEPT ![t] = BatchRequest(calls[t])]
    /\ calls' = [calls EXCEPT ![t] = <<>>]
    /\ prims' = [prims EXCEPT ![t] = Append(@, SendRequestAndWait)]
    /\ pc' = [pc EXCEPT ![t] = "batch_await"]
    /\ UNCHANGED <<request_id, allocated, id, items, ids, requests, mine, last>>

\* The transport resolves the await of HttpClient::batch_request with a
\* result of at most n Batch members; the rest of the function runs on it.
batch_return(t, n) ==
    /\ last = NoReturn
    /\ pc[t] = "batch_await"
    /\ \E tr \in TransportResult(n) :
          LET out == batch_request_resume(tr, ids[t])
          IN  last' = [op |-> "batch_request", task |-> t, id |-> 0, sent |-> ids[t],
                       request |-> wire[t], response |-> tr,
                       result |-> out.result, ids |-> out.ids,
                       requests |-> requests[t], prims |-> prims[t],
                       mine |-> mine[t], validated |-> out.validated,
                       abandoned |-> FALSE]
    /\ pc' = [pc EXCEPT ![t] = "idle"]
    /\ ids' = [ids EXCEPT ![t] = {}]
    /\ wire' = [wire EXCEPT ![t] = NoRequest]
    /\ requests' = [requests EXCEPT ![t] = <<>>]
    /\ prims' = [prims EXCEPT ![t] = <<>>]
    /\ mine' = [mine EXCEPT ![t] = {}]
    /\ UNCHANGED <<request_id, allocated, id, items, calls>>

\* ------------------------------------------------------------ cancellation
\* Variant: dropping the future gives the ids of the operation back.
abandon_reclaim(t) ==
    /\ last = NoReturn
    /\ pc[t] \in {"notification_await", "request_await", "batch_await"}
    /\ last' = [op |-> CASE pc[t] = "notification_await" -> "notification"
                         [] pc[t] = "request_await" -> "request"
                         [] pc[t] = "batch_await" -> "batch_request",
                task |-> t, id |-> id[t],
                sent |-> IF pc[t] = "request_await" THEN {id[t]} ELSE ids[t],
                request |-> wire[t], response |-> TransportErr,
                result |-> Err(NoError), ids |-> ids[t],
                requests |-> requests[t], prims |-> prims[t],
                mine |-> mine[t], validated |-> FALSE, abandoned |-> TRUE]
    /\ request_id' = (request_id + IdSpace - Cardinality(mine[t])) % IdSpace
    /\ pc' = [pc EXCEPT ![t] = "idle"]
    /\ id' = [id EXCEPT ![t] = 0]
    /\ ids' = [ids EXCEPT ![t] = {}]
    /\ wire' = [wire EXCEPT ![t] = NoRequest]
    /\ requests' = [requests EXCEPT ![t] = <<>>]
    /\ prims' = [prims EXCEPT ![t] = <<>>]
    /\ mine' = [mine EXCEPT ![t] = {}]
    /\ UNCHANGED <<allocated, items, calls>>

\* The caller drops the future of its operation at the await (the only
\* suspension point of each operation): the locals are dropped, nothing is
\* returned, request_id is not touched.
abandon(t) ==
    /\ last = NoReturn
    /\ pc[t] \in {"notification_await", "request_await", "batch_await"}
    /\ last' = [op |-> CASE pc[t] = "notification_await" -> "notification"
                         [] pc[t] = "request_await" -> "request"
                         [] pc[t] = "batch_await" -> "batch_request",
                task |-> t, id |-> id[t],
                sent |-> IF pc[t] = "request_await" THEN {id[t]} ELSE ids[t],
                request |-> wire[t], response |-> TransportErr,
                result |-> Err(NoError), ids |-> ids[t],
                requests |-> requests[t], prims |-> prims[t],
                mine |-> mine[t], validated |-> FALSE, abandoned |-> TRUE]
    /\ pc' = [pc EXCEPT ![t] = "idle"]
    /\ id' = [id EXCEPT ![t] = 0]
    /\ ids' = [ids EXCEPT ![t] = {}]
    /\ wire' = [wire EXCEPT ![t] = NoRequest]
    /\ requests' = [requests EXCEPT ![t] = <<>>]
    /\ prims' = [prims EXCEPT ![t] = <<>>]
    /\ mine' = [mine EXCEPT ![t] = {}]
    /\ UNCHANGED <<request_id, allocated, items, calls>>

\* ------------------------------------------------------------------- spec
\* Any operation of the callers in T, the transport answering with Batch
\* responses of at most n members.
Step(T, n) ==
    \/ \E t \in T, m \in {1} : notification_send(t, m)
    \/ \E t \in T : notification_return(t)
    \/ \E t \in T, m \in {1} : request_send(t, m)
    \/ \E t \in T : request_return(t, n)
    \/ \E t \in T, k \in 0 .. MaxBatch : batch_begin(t, k)
    \/ \E t \in T : batch_alloc(t)
    \/ \E t \in T : batch_send(t)
    \/ \E t \in T : batch_return(t, n)
    \/ \E t \in T : abandon(t)
    \/ Observe

\* Concurrent callers sharing one client.
Next == Step(Tasks, MaxConcurrentResp)

Spec == Init /\ [][Next]_vars

\* One caller issuing its operations one after the other, against every
\* response of up to MaxResp members.
NextSequential == Step({"t1"}, MaxResp)

SpecSequential == Init /\ [][NextSequential]_vars

\* ----------------------------------------------------------------- claims
\* The operation that returned in the last step, by kind.
ReturnedRequest == last.op = "request" /\ ~last.abandoned
ReturnedBatch == last.op = "batch_request" /\ ~last.abandoned
\* The members of the Batch response the returned batch_request received.
Members == last.response.batch
\* Member i has no numeric id, an id that was not sent, or the id of an
\* earlier member.
BadId(i) ==
    \/ Members[i].id.tag # "Num"
    \/ Members[i].id.num \notin last.sent
    \/ \E j \in 1 .. (i - 1) : Members[j].id = Members[i].id
\* The payloads of the members, in received order.
ReceivedPayloads == [i \in 1 .. Len(Members) |-> Members[i].result]

\* C1: while fewer ids than the identifier space holds have been allocated,
\* no two allocations (of any request or batch_request, in any interleaving)
\* returned the same id.
C1_AllocatedDistinct ==
    Len(allocated) < IdSpace =>
        \A i, j \in 1 .. Len(allocated) : i # j => allocated[i] # allocated[j]

\* C1 witness: a request and a batch_request in flight together, the batch
\* in the middle of its loop, one allocation short of the identifier space.
C1_Witness ==
    /\ Len(allocated) = IdSpace - 1
    /\ \E t, u \in Tasks :
          /\ t # u
          /\ pc[t] = "request_await"
          /\ pc[u] = "batch_loop" /\ ids[u] # {} /\ items[u] # <<>>

\* C2: batch_request returns Ok only if the response is a Batch whose member
\* ids are exactly the ids sent, each once.
C2_OkOnlyIfExactIds ==
    (ReturnedBatch /\ last.result.ok) =>
        /\ last.response.shape = "Batch"
        /\ Len(Members) = Cardinality(last.sent)
        /\ \A i \in 1 .. Len(Members) : ~BadId(i)
        /\ {Members[i].id.num : i \in 1 .. Len(Members)} = last.sent

\* C3: request returns Ok only on a Single response whose id is the number
\* allocated for it; a Single response with any other id gives
\* InvalidRequestId and no payload.
C3_SingleIdChecked ==
    ReturnedRequest =>
        /\ last.result.ok =>
              /\ last.response.shape = "Single"
              /\ last.response.single.id = NumId(last.id)
        /\ (last.response.shape = "Single" /\ last.response.single.id # NumId(last.id)) =>
              last.result = Err(InvalidRequestId)

\* C3 witness: a success payload under a numeric id other than the allocated
\* one was rejected.
C3_Witness ==
    /\ ReturnedRequest
    /\ last.response.shape = "Single"
    /\ last.response.single.tag = "Success"
    /\ last.response.single.id.tag = "Num"
    /\ last.response.single.id.num # last.id
    /\ last.result.error.kind = "InvalidRequestId"

\* C4 as claimed: a Batch or Notif response to request fails with a
\* ShapeMismatch error kind.
C4_ShapeMismatchKind ==
    (ReturnedRequest /\ last.response.shape \in {"Batch", "Notif"}) =>
        (~last.result.ok /\ last.result.error.kind = "ShapeMismatch")

\* C4 amended: a Batch or Notif response to request fails with Error::Custom
\* (never InvalidRequestId, Request or Ok), whatever ids the response holds.
C4_CustomOnWrongShape ==
    (ReturnedRequest /\ last.response.shape \in {"Batch", "Notif"}) =>
        /\ ~last.result.ok
        /\ last.result.payloads = <<>>
        /\ last.result.error.kind = "Custom"

\* C4 witness: a Batch response holding a success under the allocated id
\* was still refused.
C4_Witness ==
    /\ ReturnedRequest
    /\ last.response.shape = "Batch"
    /\ \E i \in 1 .. Len(Members) :
          Members[i].id = NumId(last.id) /\ Members[i].tag = "Success"
    /\ ~last.result.ok

\* C5 as claimed: a Single or Notif response to batch_request fails with a
\* ShapeMismatch error kind and leaves the expected ids untouched.
C5_ShapeMismatchKind ==
    (ReturnedBatch /\ last.response.shape \in {"Single", "Notif"}) =>
        /\ ~last.result.ok
        /\ last.result.error.kind = "ShapeMismatch"
        /\ last.ids = last.sent

\* C5 amended: a Single or Notif response to batch_request fails with
\* Error::Custom and leaves the expected ids untouched.
C5_CustomOnWrongShape ==
    (ReturnedBatch /\ last.response.shape \in {"Single", "Notif"}) =>
        /\ ~last.result.ok
        /\ last.result.payloads = <<>>
        /\ last.result.error.kind = "Custom"
        /\ last.ids = last.sent

\* C5 witness: a Single success under one of the sent ids was refused.
C5_Witness ==
    /\ ReturnedBatch
    /\ last.response.shape = "Single"
    /\ last.response.single.tag = "Success"
    /\ last.response.single.id.tag = "Num"
    /\ last.response.single.id.num \in last.sent
    /\ ~last.result.ok
    /\ last.ids = last.sent

\* C6 as claimed: a Batch response with a member whose id is unsent,
\* repeated or not numeric fails with InvalidRequestId.
C6_BadIdGivesInvalidId ==
    (ReturnedBatch /\ last.response.shape = "Batch"
        /\ \E i \in 1 .. Len(Members) : BadId(i)) =>
        last.result = Err(InvalidRequestId)

\* The first member with a bad id, and the first member before it that
\* carries an error payload (0 if there is none).
FirstBadId == CHOOSE i \in 1 .. Len(Members) :
                 BadId(i) /\ \A j \in 1 .. (i - 1) : ~BadId(j)
FirstFailureBefore(k) ==
    IF \E j \in 1 .. (k - 1) : Members[j].tag = "Failure"
    THEN CHOOSE j \in 1 .. (k - 1) :
            Members[j].tag = "Failure" /\ \A h \in 1 .. (j - 1) : Members[h].tag # "Failure"
    ELSE 0

\* C6 amended: such a batch_request always fails; it fails with
\* InvalidRequestId when every member received before the first bad id
\* carries a success payload, and otherwise with the Request error of the
\* first error payload received before it.
C6_BadIdFailsBatch ==
    (ReturnedBatch /\ last.response.shape = "Batch"
        /\ \E i \in 1 .. Len(Members) : BadId(i)) =>
        LET f == FirstFailureBefore(FirstBadId)
        IN  last.result = IF f = 0 THEN Err(InvalidRequestId)
                          ELSE Err(Request(Members[f].error))

\* C6 witness: two ids sent; the response repeats one and omits the other.
C6_Witness ==
    /\ ReturnedBatch
    /\ last.response.shape = "Batch"
    /\ Cardinality(last.sent) = Len(Members)
    /\ Len(Members) > 1
    /\ Members[1].id = Members[Len(Members)].id
    /\ Members[1].id.tag = "Num" /\ Members[1].id.num \in last.sent
    /\ Members[1].tag = "Success"
    /\ last.result = Err(InvalidRequestId)

\* C7: a Batch response holding exactly the sent ids, in any order, each
\* with a success payload, gives Ok with the payloads in received order.
C7_PermutationAccepted ==
    (ReturnedBatch /\ last.response.shape = "Batch"
        /\ Len(Members) = Cardinality(last.sent)
        /\ \A i \in 1 .. Len(Members) : ~BadId(i) /\ Members[i].tag = "Success") =>
        last.result = Ok(ReceivedPayloads)

\* C7 witness: two calls answered in reversed order with different payloads.
C7_Witness ==
    /\ ReturnedBatch
    /\ last.response.shape = "Batch"
    /\ Len(last.request.calls) = Len(Members)
    /\ Len(Members) > 1
    /\ \A i \in 1 .. Len(Members) :
          Members[i].id = last.request.calls[Len(Members) + 1 - i].id
    /\ Members[1].tag = "Success" /\ Members[Len(Members)].tag = "Success"
    /\ Members[1].result # Members[Len(Members)].result
    /\ last.result.ok
    /\ last.result.payloads = ReceivedPayloads

C9_NoPartialSuccess ==
    (ReturnedBatch /\ last.response.shape = "Batch"
        /\ \E i \in 1 .. Len(Members) : BadId(i) \/ Members[i].tag = "Failure") =>
        (~last.result.ok /\ last.result.payloads = <<>>)

\* C9 witness: a valid success member came first, a failing member after it.
C9_Witness ==
    /\ ReturnedBatch
    /\ last.response.shape = "Batch"
    /\ Len(Members) > 1
    /\ ~BadId(1) /\ Members[1].tag = "Success"
    /\ ~BadId(Len(Members)) /\ Members[Len(Members)].tag = "Failure"
    /\ ~last.result.ok
    /\ last.result.payloads = <<>>

\* C10: on a Single response under the allocated id, request fails with
\* Error::Request holding the server's error object if the payload is an
\* error, and otherwise returns the response's result.
C10_PayloadSurfaced ==
    (ReturnedRequest /\ last.response.shape = "Single"
        /\ last.response.single.id = NumId(last.id)) =>
        IF last.response.single.tag = "Failure"
        THEN last.result = Err(Request(last.response.single.error))
        ELSE last.result = Ok(<<last.response.single.result>>)

\* C10 witness: a matching response with an error object was surfaced.
C10_Witness ==
    /\ ReturnedRequest
    /\ last.response.shape = "Single"
    /\ last.response.single.id = NumId(last.id)
    /\ last.response.single.tag = "Failure"
    /\ last.result.error.kind = "Request"
    /\ last.result.error.rpc \in RpcError

\* An operation of the given kind returned (was not abandoned) in the last step.
Returned(op) == last.op = op /\ ~last.abandoned

\* C11: notification hands its request to send_notification only, never to
\* the request/response primitive, and returns Ok as soon as that send
\* succeeds, whatever happens to callers waiting for a response.
C11_NotifyOnlySends ==
    /\ \A t \in Tasks :
          pc[t] = "notification_await" =>
              /\ prims[t] = <<SendNotification>>
              /\ wire[t] = SingleRequest(Notification(wire[t].calls[1].method))
              /\ last = NoReturn => ENABLED notification_return(t)
    /\ Returned("notification") =>
          /\ last.prims = <<SendNotification>>
          /\ last.response # TransportErr => last.result = Ok(<<>>)

\* C11 witness: a notification returned Ok while another caller's request
\* was still waiting for its response.
C11_Witness ==
    /\ Returned("notification")
    /\ last.result.ok
    /\ \E u \in Tasks : u # last.task /\ pc[u] = "request_await"

\* C12: every notification, request and batch_request, an empty batch
\* included, invokes the transport exactly once by the time it returns, and
\* never more than once while it runs.
C12_OneTransportCall ==
    /\ \A t \in Tasks : Len(prims[t]) <= 1
    /\ \A t \in Tasks :
          pc[t] \in {"notification_await", "request_await", "batch_await"} =>
              Len(prims[t]) = 1
    /\ (last.op # "none" /\ ~last.abandoned) => Len(last.prims) = 1

\* C12 witness: a batch_request with no items went to the transport once
\* and returned an error for what came back.
C12_Witness ==
    /\ Returned("batch_request")
    /\ last.requests = <<>>
    /\ last.request = BatchRequest(<<>>)
    /\ last.prims = <<SendRequestAndWait>>
    /\ ~last.result.ok

\* C13: when the transport fails, the operation returns
\* Error::TransportError with no payload and the response is never matched.
C13_TransportErrorPassedOn ==
    (last.op # "none" /\ ~last.abandoned /\ last.response = TransportErr) =>
        /\ last.result = Err(TransportError)
        /\ ~last.validated

\* C13 witness: a batch_request with ids allocated got a transport failure.
C13_Witness ==
    /\ Returned("batch_request")
    /\ last.sent # {}
    /\ last.response = TransportErr
    /\ last.result.error.kind = "TransportError"
    /\ last.ids = last.sent

\* C14: the i-th allocation returns (i - 1) modulo the identifier space: the
\* allocation at the maximum returns the maximum, the next one returns 0,
\* and an allocation is possible at every counter value.
C14_CounterWraps ==
    /\ request_id \in U64
    /\ \A i \in 1 .. Len(allocated) : allocated[i] = (i - 1) % IdSpace
    /\ \A i \in 1 .. (Len(allocated) - 1) :
          allocated[i] = IdSpace - 1 => allocated[i + 1] = 0
    /\ (last = NoReturn /\ pc["t1"] = "idle" /\ Len(allocated) < MaxAllocs) =>
          ENABLED request_send("t1", 1)

\* C14 witness: the allocation after the one that returned the maximum
\* returned 0.
C14_Witness ==
    /\ Len(allocated) > IdSpace
    /\ allocated[IdSpace] = IdSpace - 1
    /\ allocated[IdSpace + 1] = 0
    /\ request_id = 1

C16_WaitingBlocksNobody ==
    \A t, u \in Tasks :
        (t # u /\ pc[t] \in {"request_await", "batch_await"} /\ last = NoReturn) =>
            /\ pc[u] = "idle" =>
                  /\ ENABLED notification_send(u, 1)
                  /\ ENABLED batch_begin(u, MaxBatch)
                  /\ Len(allocated) < MaxAllocs => ENABLED request_send(u, 1)
            /\ pc[u] = "notification_await" => ENABLED notification_return(u)
            /\ pc[u] = "request_await" => ENABLED request_return(u, MaxConcurrentResp)
            /\ (pc[u] = "batch_loop" /\ items[u] = <<>>) => ENABLED batch_send(u)
            /\ (pc[u] = "batch_loop" /\ items[u] # <<>> /\ Len(allocated) < MaxAllocs) =>
                  ENABLED batch_alloc(u)
            /\ pc[u] = "batch_await" => ENABLED batch_return(u, MaxConcurrentResp)

\* C16 witness: a request returned Ok while a request another caller had
\* started before it was still waiting.
C16_Witness ==
    /\ Returned("request")
    /\ last.result.ok
    /\ \E t \in Tasks :
          /\ t # last.task
          /\ pc[t] = "request_await"
          /\ \A p \in mine[t], q \in last.mine : p < q

\* The counter and the allocations agree, and every operation holds the
\* allocations it made: one for a request, n for a batch_request of n items.
C17_Accounted ==
    /\ request_id = Len(allocated) % IdSpace
    /\ \A t \in Tasks : mine[t] \subseteq 1 .. Len(allocated)
    /\ last.mine \subseteq 1 .. Len(allocated)
    /\ last.op = "request" => Cardinality(last.mine) = 1
    /\ last.op = "batch_request" => Cardinality(last.mine) = Len(last.requests)
\* A step moves the counter forward by one or not at all, and the step
\* that ends an operation does not move it.
C17_Step ==
    /\ request_id' \in {request_id, (request_id + 1) % IdSpace}
    /\ Len(allocated') >= Len(allocated)
    /\ (last = NoReturn /\ last' # NoReturn) =>
          (request_id' = request_id /\ allocated' = allocated)

\* C17: request_id always equals the number of allocations made so far
\* modulo the identifier space; no step moves it other than forward by one;
\* the step that ends an operation (Ok, transport error, validation error
\* or abandonment) leaves it alone; a request accounts for one allocation
\* and a batch_request with n items for n.
C17_IdsNotReclaimed == [](C17_Accounted) /\ [][C17_Step]_vars

\* C17 witness: a batch_request with two ids was abandoned and the counter
\* still counts them.
C17_Witness ==
    /\ last.abandoned
    /\ last.op = "batch_request"
    /\ Cardinality(last.mine) = 2
    /\ request_id = Len(allocated) % IdSpace

\* Member i fails a check of the loop: its id or its payload.
Failing(i) == BadId(i) \/ Members[i].tag = "Failure"
\* The first member, in received order, that fails a check.
FirstFailing == CHOOSE i \in 1 .. Len(Members) :
                   Failing(i) /\ \A j \in 1 .. (i - 1) : ~Failing(j)

\* C18: the error of a batch_request is the one of the first failing member
\* in received order, and on that member the id is judged before the
\* payload: InvalidRequestId if its id is bad, else the Request error of its
\* payload.
C18_FirstFailureDecides ==
    (ReturnedBatch /\ last.response.shape = "Batch"
        /\ \E i \in 1 .. Len(Members) : Failing(i)) =>
        last.result = IF BadId(FirstFailing) THEN Err(InvalidRequestId)
                      ELSE Err(Request(Members[FirstFailing].error))

\* C18 witness: an error payload under a sent id came before a member with
\* an id that was not sent; the Request error was returned.
C18_Witness ==
    /\ ReturnedBatch
    /\ last.response.shape = "Batch"
    /\ Len(Members) = 2
    /\ ~BadId(1) /\ Members[1].tag = "Failure"
    /\ Members[2].id.tag = "Num" /\ Members[2].id.num \notin last.sent
    /\ last.result = Err(Request(Members[1].error))

\* The members a returned operation took its payloads from.
Used == IF last.op = "request" THEN <<last.response.single>> ELSE Members
\* Id n was allocated by an operation other than the one that just ended.
AllocatedElsewhere(n) ==
    \E p \in (1 .. Len(allocated)) \ last.mine : allocated[p] = n

\* C19: while no id has been reused, an operation that returns Ok took each
\* payload from a member whose id no other operation allocated, and a
\* request answered with a Single response under another operation's id
\* fails with InvalidRequestId.
C19_NoMisattribution ==
    (Len(allocated) <= IdSpace /\ (ReturnedRequest \/ ReturnedBatch)) =>
        /\ last.result.ok =>
              /\ Len(last.result.payloads) = Len(Used)
              /\ \A i \in 1 .. Len(Used) :
                    /\ Used[i].id.tag = "Num"
                    /\ ~AllocatedElsewhere(Used[i].id.num)
                    /\ last.result.payloads[i] = Used[i].result
        /\ (ReturnedRequest /\ last.response.shape = "Single"
              /\ last.response.single.id.tag = "Num"
              /\ AllocatedElsewhere(last.response.single.id.num)) =>
              last.result = Err(InvalidRequestId)

\* C19 witness: a request was answered with the success meant for the
\* request another caller is still waiting on, and got InvalidRequestId.
C19_Witness ==
    /\ ReturnedRequest
    /\ Len(allocated) <= IdSpace
    /\ last.response.shape = "Single"
    /\ last.response.single.tag = "Success"
    /\ \E u \in Tasks :
          /\ u # last.task
          /\ pc[u] = "request_await"
          /\ last.response.single.id = NumId(id[u])
    /\ last.result = Err(InvalidRequestId)

\* C20: neither step of notification (handing the request to the transport,
\* returning Ok or the transport error) changes request_id or allocates,
\* and the request it hands over is a Notification without a numeric id.
C20_NotifyKeepsCounter ==
    [][\A t \in Tasks :
          /\ (pc[t] = "idle" /\ pc'[t] = "notification_await") =>
                /\ request_id' = request_id
                /\ allocated' = allocated
                /\ mine'[t] = {}
                /\ wire'[t].shape = "Single"
                /\ wire'[t].calls[1].call = "Notification"
                /\ wire'[t].calls[1].id.tag # "Num"
          /\ (pc[t] = "notification_await" /\ pc'[t] = "idle") =>
                /\ request_id' = request_id
                /\ allocated' = allocated]_vars

\* C20 witness: a notification failed in the transport after ids had been
\* allocated by other operations; it holds none of them.
C20_Witness ==
    /\ Returned("notification")
    /\ ~last.result.ok
    /\ Len(allocated) > 0
    /\ last.mine = {}
    /\ last.request = SingleRequest(Notification(1))

====
